---- MODULE Spec2Model ----
(***************************************************************************)
(* Model of AndroidEnv (src/android_env/android_env.py): the episode       *)
(* lifecycle of reset()/step(), the latest-state cache and the telemetry   *)
(* counters in _log_dict.  The coordinator and the task manager are        *)
(* collaborators: what they return is an input of each call, and the       *)
(* methods a call invokes on them are recorded in `trace`.                 *)
(***************************************************************************)
EXTENDS Integers, Sequences, FiniteSets, TLC

(* ---------------------------- bounds ---------------------------------- *)
\* Number of reset() and step() calls the agent makes.
MaxCalls == 4
\* Observations the executor can return are [pixels |-> 1..MaxObs].
MaxObs == 2
\* Rewards the task manager can return are 0..MaxReward.
MaxReward == 1
\* Number of close() calls the agent makes.
MaxCloses == 2

(* ---------------------------- values ---------------------------------- *)
\* The empty Python dict {}.
EmptyDict == [k \in {} |-> 0]
\* Python None, as returned by execute_action when there is no observation.
None == [none |-> TRUE]

\* action_type.ActionType: the values of the enumeration and their names.
ActionType == {0, 1, 2}
ActionTypeName(act_type) == <<"TOUCH", "LIFT", "REPEAT">>[act_type + 1]
ActionTypeNames == {ActionTypeName(t) : t \in ActionType}

\* Actions a caller can pass to step(): a dict with an 'action_type' entry.
Actions == {[action_type |-> t] : t \in ActionType}
\* Observations returned by coordinator.execute_action().
Observations == {[pixels |-> p] : p \in 1..MaxObs}
\* Extras returned by task_manager.get_current_extras(): key -> array.
Extras == {[score |-> <<1>>], [score |-> <<1, 2>>]}
\* Rewards returned by task_manager.get_current_reward().
Rewards == 0..MaxReward
\* Mappings returned by coordinator.log_dict().
BackendLogs == {[k \in {<<"coordinator_stat">>} |-> v] : v \in {0, 1}}

\* What the collaborators answer during one call.
Inputs == [should_restart : BOOLEAN, check_timeout : BOOLEAN,
           observation : Observations \cup {None}, extras : Extras,
           reward : Rewards, ended : BOOLEAN]
\* An answer a call does not ask for is fixed, so that it makes no difference.
Unasked(in, fields) ==
    /\ "observation" \in fields => in.observation = None
    /\ "extras" \in fields => in.extras = [score |-> <<1>>]
    /\ "reward" \in fields => in.reward = 0
    /\ "ended" \in fields => in.ended = FALSE
\* should_restart() answers true: nothing else is asked, whatever
\* check_timeout() would have answered.
RestartAnswers ==
    {in \in Inputs : in.should_restart /\ Unasked(in,
        {"observation", "extras", "reward", "ended"})}
\* should_restart() answers false, check_timeout() true: nothing else is asked.
TimeoutAnswers ==
    {in \in Inputs : ~in.should_restart /\ in.check_timeout /\ Unasked(in,
        {"observation", "extras", "reward", "ended"})}
\* A reset asks for the observation and the extras.
FetchAnswers ==
    {in \in Inputs : ~in.should_restart /\ ~in.check_timeout /\ Unasked(in,
        {"reward", "ended"})}
\* A normally processed step asks for everything.
NormalAnswers ==
    {in \in Inputs : ~in.should_restart /\ ~in.check_timeout}

\* dm_env.TimeStep
TimeStep(step_type, observation, reward, discount) ==
    [step_type |-> step_type, observation |-> observation,
     reward |-> reward, discount |-> discount]
\* dm_env.termination(observation, reward): a LAST TimeStep with discount 0.0
termination(observation, reward) == TimeStep("LAST", observation, reward, 0)
\* No TimeStep has been returned yet.
NoTimeStep == TimeStep("NONE", EmptyDict, 0, 0)

(* ------------------------- telemetry keys ----------------------------- *)
\* self._log_prefixes
log_prefixes == {"androidenv_total", "androidenv_episode"}
\* f'{prefix}_steps'
StepsKey(prefix) == <<prefix, "steps">>
\* f'{prefix}_action_type_{name}'
ActionTypeKey(prefix, name) == <<prefix, "action_type", name>>
\* f'{prefix}_action_type_ratio_{name}'
RatioKey(prefix, name) == <<prefix, "action_type_ratio", name>>
\* key.startswith(prefix): keys are sequences of name parts
StartsWith(key, prefix) == key[1] = prefix
\* The keys of self._log_dict after __init__.
LogKeys == {<<"restart_count">>, <<"reset_count_step_timeout">>}
           \cup {StepsKey(p) : p \in log_prefixes}
           \cup {ActionTypeKey(p, n) : p \in log_prefixes, n \in ActionTypeNames}
\* self._log_dict after __init__: every counter 0.
InitLogDict == [k \in LogKeys |-> 0]
\* A quotient a / b of two counters, kept exact.
Ratio(a, b) == <<a, b>>

(* ------------------------- telemetry ledger --------------------------- *)
\* _reset_log_dict zeroing the counters of both scopes.
reset_log_dict_all(ld) ==
    [key \in DOMAIN ld |->
        IF \E p \in log_prefixes : StartsWith(key, p) THEN 0 ELSE ld[key]]

\* AndroidEnv._reset_log_dict
reset_log_dict(ld) ==
    [key \in DOMAIN ld |->
        IF StartsWith(key, "androidenv_episode") THEN 0 ELSE ld[key]]

\* _update_log_dict counting in the total scope only.
update_log_dict_total_only(ld, act_type) ==
    LET name == ActionTypeName(act_type)
        hit  == {StepsKey("androidenv_total"),
                 ActionTypeKey("androidenv_total", name)}
    IN  [key \in DOMAIN ld |-> IF key \in hit THEN ld[key] + 1 ELSE ld[key]]

\* _update_log_dict counting the step twice in each scope.
update_log_dict_double_step(ld, act_type) ==
    LET name == ActionTypeName(act_type)
    IN  [key \in DOMAIN ld |->
            IF key \in {StepsKey(p) : p \in log_prefixes} THEN ld[key] + 2
            ELSE IF key \in {ActionTypeKey(p, name) : p \in log_prefixes}
                 THEN ld[key] + 1
                 ELSE ld[key]]

\* AndroidEnv._update_log_dict
update_log_dict(ld, act_type) ==
    LET name == ActionTypeName(act_type)
        hit  == {StepsKey(p) : p \in log_prefixes}
                \cup {ActionTypeKey(p, name) : p \in log_prefixes}
    IN  [key \in DOMAIN ld |-> IF key \in hit THEN ld[key] + 1 ELSE ld[key]]

\* dict.update: the entries of `other` are added to or replace those of `d`.
DictUpdate(d, other) ==
    [key \in DOMAIN d \cup DOMAIN other |->
        IF key \in DOMAIN other THEN other[key] ELSE d[key]]

\* _flush_log_dict without the "steps == 0" test.
flush_log_dict_all_ratios(ld, backend) ==
    LET merged == DictUpdate(ld, backend)
        ratios == {RatioKey(p, n) : p \in log_prefixes, n \in ActionTypeNames}
    IN  [key \in DOMAIN merged \cup ratios |->
            IF key \in ratios
            THEN Ratio(merged[ActionTypeKey(key[1], key[3])],
                       merged[StepsKey(key[1])])
            ELSE merged[key]]

\* AndroidEnv._flush_log_dict
flush_log_dict(ld, backend) ==
    LET merged == DictUpdate(ld, backend)
        live   == {p \in log_prefixes : merged[StepsKey(p)] # 0}
        ratios == {RatioKey(p, n) : p \in live, n \in ActionTypeNames}
    IN  [key \in DOMAIN merged \cup ratios |->
            IF key \in ratios
            THEN Ratio(merged[ActionTypeKey(key[1], key[3])],
                       merged[StepsKey(key[1])])
            ELSE merged[key]]

(* --------------------------- reset / step ----------------------------- *)
\* The cache emptied when the executor returns no observation.
cache_observation_clears(cached, observation) ==
    IF observation # None THEN observation ELSE EmptyDict

\* "if observation is not None: self._latest_observation = observation.copy()"
cache_observation(cached, observation) ==
    IF observation # None THEN observation ELSE cached

\* reset without "self._latest_action = {}".
reset_keeps_action(self, in) ==
    LET cleared == [self EXCEPT !.log_dict = reset_log_dict(@)]
        fetched == [cleared EXCEPT
                      !.latest_observation = cache_observation(@, in.observation),
                      !.latest_extras = in.extras]
        done    == [fetched EXCEPT !.reset_next_step = FALSE,
                                   !.latest_step_type = "FIRST"]
    IN  [self  |-> done,
         ret   |-> TimeStep(done.latest_step_type, done.latest_observation, 0, 0),
         path  |-> "reset",
         trace |-> <<"reset", "execute_action(None)", "get_current_extras">>]

\* reset without "self._reset_next_step = False".
reset_keeps_pending(self, in) ==
    LET cleared == [self EXCEPT !.latest_action = EmptyDict,
                                !.log_dict = reset_log_dict(@)]
        fetched == [cleared EXCEPT
                      !.latest_observation = cache_observation(@, in.observation),
                      !.latest_extras = in.extras]
        done    == [fetched EXCEPT !.latest_step_type = "FIRST"]
    IN  [self  |-> done,
         ret   |-> TimeStep(done.latest_step_type, done.latest_observation, 0, 0),
         path  |-> "reset",
         trace |-> <<"reset", "execute_action(None)", "get_current_extras">>]

\* reset without "self._latest_step_type = StepType.FIRST".
reset_keeps_step_type(self, in) ==
    LET cleared == [self EXCEPT !.latest_action = EmptyDict,
                                !.log_dict = reset_log_dict(@)]
        fetched == [cleared EXCEPT
                      !.latest_observation = cache_observation(@, in.observation),
                      !.latest_extras = in.extras]
        done    == [fetched EXCEPT !.reset_next_step = FALSE]
    IN  [self  |-> done,
         ret   |-> TimeStep(done.latest_step_type, done.latest_observation, 0, 0),
         path  |-> "reset",
         trace |-> <<"reset", "execute_action(None)", "get_current_extras">>]

\* AndroidEnv.reset applied to the object state `self`.
reset(self, in) ==
    LET cleared == [self EXCEPT !.latest_action = EmptyDict,
                                !.log_dict = reset_log_dict(@)]
        fetched == [cleared EXCEPT
                      !.latest_observation = cache_observation(@, in.observation),
                      !.latest_extras = in.extras]
        done    == [fetched EXCEPT !.reset_next_step = FALSE,
                                   !.latest_step_type = "FIRST"]
    IN  [self  |-> done,
         ret   |-> TimeStep(done.latest_step_type, done.latest_observation, 0, 0),
         path  |-> "reset",
         trace |-> <<"reset", "execute_action(None)", "get_current_extras">>]

\* The restart branch without "self._reset_next_step = True".
restart_branch_no_flag(s0) ==
    [self  |-> [s0 EXCEPT !.log_dict[<<"restart_count">>] = @ + 1,
                          !.latest_step_type = "LAST"],
     ret   |-> termination(s0.latest_observation, 0),
     path  |-> "restart",
     trace |-> <<"should_restart", "restart_simulator">>]

\* The restart branch discarding the cached observation.
restart_branch_drop_observation(s0) ==
    [self  |-> [s0 EXCEPT !.log_dict[<<"restart_count">>] = @ + 1,
                          !.reset_next_step = TRUE,
                          !.latest_step_type = "LAST",
                          !.latest_observation = EmptyDict],
     ret   |-> termination(EmptyDict, 0),
     path  |-> "restart",
     trace |-> <<"should_restart", "restart_simulator">>]

\* step, "if self._coordinator.should_restart():" branch
restart_branch(s0) ==
    [self  |-> [s0 EXCEPT !.log_dict[<<"restart_count">>] = @ + 1,
                          !.reset_next_step = TRUE,
                          !.latest_step_type = "LAST"],
     ret   |-> termination(s0.latest_observation, 0),
     path  |-> "restart",
     trace |-> <<"should_restart", "restart_simulator">>]

\* The timeout branch counting in restart_count.
timeout_branch_wrong_counter(s0) ==
    [self  |-> [s0 EXCEPT !.log_dict[<<"restart_count">>] = @ + 1,
                          !.reset_next_step = TRUE,
                          !.latest_step_type = "LAST"],
     ret   |-> termination(s0.latest_observation, 0),
     path  |-> "timeout",
     trace |-> <<"should_restart", "check_timeout">>]

\* The timeout branch without "self._reset_next_step = True".
timeout_branch_no_flag(s0) ==
    [self  |-> [s0 EXCEPT !.log_dict[<<"reset_count_step_timeout">>] = @ + 1,
                          !.latest_step_type = "LAST"],
     ret   |-> termination(s0.latest_observation, 0),
     path  |-> "timeout",
     trace |-> <<"should_restart", "check_timeout">>]

\* The timeout branch counting the timed-out step as a step.
timeout_branch_counts_step(s0) ==
    [self  |-> [s0 EXCEPT !.log_dict =
                              [update_log_dict(@, s0.latest_action.action_type)
                                  EXCEPT ![<<"reset_count_step_timeout">>] = @ + 1],
                          !.reset_next_step = TRUE,
                          !.latest_step_type = "LAST"],
     ret   |-> termination(s0.latest_observation, 0),
     path  |-> "timeout",
     trace |-> <<"should_restart", "check_timeout", "increment_steps">>]

\* step, "if self._coordinator.check_timeout():" branch
timeout_branch(s0) ==
    [self  |-> [s0 EXCEPT !.log_dict[<<"reset_count_step_timeout">>] = @ + 1,
                          !.reset_next_step = TRUE,
                          !.latest_step_type = "LAST"],
     ret   |-> termination(s0.latest_observation, 0),
     path  |-> "timeout",
     trace |-> <<"should_restart", "check_timeout">>]

\* step, "if self._reset_next_step: return self.reset()"
reset_branch(s0, in) ==
    LET r == reset(s0, in)
    IN  [r EXCEPT !.path = "silent_reset",
                  !.trace = <<"should_restart", "check_timeout">> \o @]

\* The discount with its two cases exchanged.
discount_inverted(pending) == IF pending THEN 1 ELSE 0

\* step, "discount=0.0 if self._reset_next_step else 1.0"
discount(pending) == IF pending THEN 0 ELSE 1

\* step, "StepType.LAST if self._reset_next_step else StepType.MID"
step_type_of(pending) == IF pending THEN "LAST" ELSE "MID"

\* Normal processing that caches the extras only with a new observation.
process_branch_extras_with_observation(s0, action, in) ==
    LET counted == [s0 EXCEPT
                      !.log_dict = update_log_dict(@, action.action_type)]
        fetched == [counted EXCEPT
                      !.latest_observation = cache_observation(@, in.observation),
                      !.latest_extras =
                          IF in.observation # None THEN in.extras ELSE @]
        flagged == [fetched EXCEPT !.reset_next_step = in.ended]
        done    == [flagged EXCEPT
                      !.latest_step_type = step_type_of(flagged.reset_next_step)]
    IN  [self  |-> done,
         ret   |-> TimeStep(done.latest_step_type, done.latest_observation,
                            in.reward, discount(done.reset_next_step)),
         path  |-> "normal",
         trace |-> <<"should_restart", "check_timeout", "increment_steps",
                     "execute_action(action)", "get_current_reward",
                     "get_current_extras", "check_if_episode_ended">>]

\* step, from "self._update_log_dict(...)" to the end: normal processing
process_branch(s0, action, in) ==
    LET counted == [s0 EXCEPT
                      !.log_dict = update_log_dict(@, action.action_type)]
        fetched == [counted EXCEPT
                      !.latest_observation = cache_observation(@, in.observation),
                      !.latest_extras = in.extras]
        flagged == [fetched EXCEPT !.reset_next_step = in.ended]
        done    == [flagged EXCEPT
                      !.latest_step_type = step_type_of(flagged.reset_next_step)]
    IN  [self  |-> done,
         ret   |-> TimeStep(done.latest_step_type, done.latest_observation,
                            in.reward, discount(done.reset_next_step)),
         path  |-> "normal",
         trace |-> <<"should_restart", "check_timeout", "increment_steps",
                     "execute_action(action)", "get_current_reward",
                     "get_current_extras", "check_if_episode_ended">>]

\* step checking the timeout before the restart.
step_timeout_first(self, action, in) ==
    LET s0 == [self EXCEPT !.latest_action = action]
    IN  IF in.check_timeout THEN timeout_branch(s0)
        ELSE IF in.should_restart THEN restart_branch(s0)
        ELSE IF s0.reset_next_step THEN reset_branch(s0, in)
        ELSE process_branch(s0, action, in)

\* step caching the action only when it processes it.
step_caches_action_late(self, action, in) ==
    IF in.should_restart THEN restart_branch(self)
    ELSE IF in.check_timeout THEN timeout_branch(self)
    ELSE IF self.reset_next_step THEN reset_branch(self, in)
    ELSE process_branch([self EXCEPT !.latest_action = action], action, in)

\* step without the reset-pending check.
step_ignores_pending(self, action, in) ==
    LET s0 == [self EXCEPT !.latest_action = action]
    IN  IF in.should_restart THEN restart_branch(s0)
        ELSE IF in.check_timeout THEN timeout_branch(s0)
        ELSE process_branch(s0, action, in)

\* AndroidEnv.step applied to the object state `self`.
step(self, action, in) ==
    LET s0 == [self EXCEPT !.latest_action = action]
    IN  IF in.should_restart THEN restart_branch(s0)
        ELSE IF in.check_timeout THEN timeout_branch(s0)
        ELSE IF s0.reset_next_step THEN reset_branch(s0, in)
        ELSE process_branch(s0, action, in)

(* ------------------------ accessors / shutdown ------------------------ *)
\* The keys of task_extras_spec(): one extra, "score".
TaskExtrasSpec == {"score"}

\* ndarray.astype(spec.dtype): each element converted, here to itself.
astype(values) == [i \in DOMAIN values |-> values[i]]

\* task_extras handing out the most recent value of each key and dropping it
\* from the cache when older values remain.
task_extras_consuming(self, latest_only) ==
    LET present == {key \in TaskExtrasSpec : key \in DOMAIN self.latest_extras}
        rest(values) == IF Len(values) > 1
                        THEN SubSeq(values, 1, Len(values) - 1) ELSE values
    IN  [self |-> [self EXCEPT !.latest_extras =
                      [key \in DOMAIN @ |->
                          IF key \in present /\ latest_only
                          THEN rest(@[key]) ELSE @[key]]],
         ret  |-> [key \in present |->
                     LET extra_values == astype(self.latest_extras[key])
                     IN  IF latest_only THEN extra_values[Len(extra_values)]
                         ELSE extra_values]]

\* AndroidEnv.task_extras applied to the object state `self`.
task_extras(self, latest_only) ==
    LET present == {key \in TaskExtrasSpec : key \in DOMAIN self.latest_extras}
    IN  [self |-> self,
         ret  |-> [key \in present |->
                     LET extra_values == astype(self.latest_extras[key])
                     IN  IF latest_only THEN extra_values[Len(extra_values)]
                         ELSE extra_values]]

\* AndroidEnv.close applied to the shutdown state: the _is_closed flag and
\* the number of times coordinator.close() has been invoked.
close(sd) ==
    [is_closed |-> TRUE, coordinator_closes |-> sd.coordinator_closes + 1]

\* AndroidEnv.__del__
del(sd) == IF ~sd.is_closed THEN close(sd) ELSE sd

(* ----------------------------- state ---------------------------------- *)
VARIABLES
    latest_action,       \* self._latest_action
    latest_observation,  \* self._latest_observation
    latest_extras,       \* self._latest_extras
    latest_step_type,    \* self._latest_step_type
    reset_next_step,     \* self._reset_next_step
    log_dict,            \* self._log_dict
    timestep,            \* the TimeStep most recently returned by reset/step
    logs,                \* the mapping returned by the call, if it was android_logs
    call,                \* the most recent call: operation, path, what it read
    trace,               \* collaborator methods the most recent call invoked
    hist_total,          \* per action type, the normally processed steps so far
    hist_episode,        \* ... and those since the most recent reset
    calls,               \* number of reset() and step() calls made
    extras,              \* the mapping returned by the call, if it was task_extras
    is_closed,           \* self._is_closed
    coordinator_closes,  \* number of coordinator.close() invocations
    deleted              \* the object has been torn down (__del__ has run)

vars == <<latest_action, latest_observation, latest_extras, latest_step_type,
          reset_next_step, log_dict, timestep, logs, call, trace,
          hist_total, hist_episode, calls, extras, is_closed,
          coordinator_closes, deleted>>

\* The shutdown state of the object.
Shutdown == [is_closed |-> is_closed, coordinator_closes |-> coordinator_closes]

\* The fields of the AndroidEnv object.
Self == [latest_action |-> latest_action,
         latest_observation |-> latest_observation,
         latest_extras |-> latest_extras,
         latest_step_type |-> latest_step_type,
         reset_next_step |-> reset_next_step,
         log_dict |-> log_dict]

\* The fields of the AndroidEnv object in the next state.
SelfNext == [latest_action |-> latest_action',
             latest_observation |-> latest_observation',
             latest_extras |-> latest_extras',
             latest_step_type |-> latest_step_type',
             reset_next_step |-> reset_next_step',
             log_dict |-> log_dict']

\* The record kept of a call: the operation, the path it took, its argument,
\* the collaborators' answers, and on entry the step type last returned and
\* the reset-pending flag.
CallRecord(op, path, action, in) ==
    [op |-> op, path |-> path, action |-> action, in |-> in,
     before |-> [step_type |-> timestep.step_type,
                 reset_next_step |-> reset_next_step]]

\* The answers recorded for a call that asks the collaborators nothing.
NoAnswers == [should_restart |-> FALSE, check_timeout |-> FALSE,
              observation |-> None, extras |-> [score |-> <<1>>],
              reward |-> 0, ended |-> FALSE]

\* A tally of steps by action type: none yet, and one more of type t.
NoSteps == [t \in ActionType |-> 0]
OneMore(tally, t) == [tally EXCEPT ![t] = @ + 1]
\* The number of steps in a tally.
RECURSIVE Tallied(_, _)
Tallied(tally, types) ==
    IF types = {} THEN 0
    ELSE LET t == CHOOSE u \in types : TRUE
         IN  tally[t] + Tallied(tally, types \ {t})
Steps(tally) == Tallied(tally, ActionType)

\* The object takes the state a call left it in.
Install(s) ==
    /\ latest_action' = s.latest_action
    /\ latest_observation' = s.latest_observation
    /\ latest_extras' = s.latest_extras
    /\ latest_step_type' = s.latest_step_type
    /\ reset_next_step' = s.reset_next_step
    /\ log_dict' = s.log_dict

\* AndroidEnv.__init__
Init ==
    /\ latest_action = EmptyDict
    /\ latest_observation = EmptyDict
    /\ latest_extras = EmptyDict
    /\ latest_step_type = "LAST"
    /\ reset_next_step = TRUE
    /\ log_dict = InitLogDict
    /\ timestep = NoTimeStep
    /\ logs = EmptyDict
    /\ call = [op |-> "init", path |-> "init", action |-> EmptyDict,
               in |-> NoAnswers,
               before |-> [step_type |-> "NONE", reset_next_step |-> TRUE]]
    /\ trace = <<>>
    /\ hist_total = NoSteps
    /\ hist_episode = NoSteps
    /\ calls = 0
    /\ extras = EmptyDict
    /\ is_closed = FALSE
    /\ coordinator_closes = 0
    /\ deleted = FALSE

\* A call of reset() by the agent.
Reset ==
    \E in \in FetchAnswers :
        LET r == reset(Self, in)
        IN  /\ ~deleted
            /\ calls < MaxCalls
            /\ calls' = calls + 1
            /\ Install(r.self)
            /\ timestep' = r.ret
            /\ logs' = EmptyDict
            /\ extras' = EmptyDict
            /\ UNCHANGED <<is_closed, coordinator_closes, deleted>>
            /\ call' = CallRecord("reset", r.path, EmptyDict, in)
            /\ trace' = r.trace
            /\ hist_episode' = NoSteps
            /\ UNCHANGED hist_total

\* A call of step(action) by the agent.
Step ==
    \E action \in Actions,
       in \in RestartAnswers \cup TimeoutAnswers \cup
              (IF reset_next_step THEN FetchAnswers ELSE NormalAnswers) :
        LET r == step(Self, action, in)
        IN  /\ ~deleted
            /\ calls < MaxCalls
            /\ calls' = calls + 1
            /\ Install(r.self)
            /\ timestep' = r.ret
            /\ logs' = EmptyDict
            /\ extras' = EmptyDict
            /\ UNCHANGED <<is_closed, coordinator_closes, deleted>>
            /\ call' = CallRecord("step", r.path, action, in)
            /\ trace' = r.trace
            /\ hist_total' = IF r.path = "normal"
                             THEN OneMore(hist_total, action.action_type)
                             ELSE hist_total
            /\ hist_episode' = CASE r.path = "normal" ->
                                      OneMore(hist_episode, action.action_type)
                                 [] r.path = "silent_reset" -> NoSteps
                                 [] OTHER -> hist_episode

\* A call of android_logs() by the agent.
AndroidLogs ==
    \E backend \in BackendLogs :
        /\ ~deleted
        /\ logs' = flush_log_dict(log_dict, backend)
        /\ extras' = EmptyDict
        /\ call' = CallRecord("android_logs", "android_logs", EmptyDict, NoAnswers)
        /\ trace' = <<"log_dict">>
        /\ UNCHANGED <<latest_action, latest_observation, latest_extras,
                       latest_step_type, reset_next_step, log_dict, timestep,
                       hist_total, hist_episode, calls,
                       is_closed, coordinator_closes, deleted>>

\* The record kept of a task_extras call: also its argument, and whether
\* the call before it was task_extras(latest_only=True) too.
ReadRecord(latest_only) ==
    [op |-> "task_extras", path |-> "task_extras", action |-> EmptyDict,
     in |-> NoAnswers,
     before |-> [step_type |-> timestep.step_type,
                 reset_next_step |-> reset_next_step],
     latest_only |-> latest_only,
     again |-> (call.op = "task_extras" /\ call.latest_only)]

\* A call of task_extras(latest_only) by the agent.
TaskExtras ==
    \E latest_only \in BOOLEAN :
        LET r == task_extras(Self, latest_only)
        IN  /\ ~deleted
            /\ Install(r.self)
            /\ extras' = r.ret
            /\ logs' = EmptyDict
            /\ call' = ReadRecord(latest_only)
            /\ trace' = <<>>
            /\ UNCHANGED <<timestep, hist_total, hist_episode, calls,
                           is_closed, coordinator_closes, deleted>>

\* What close() and __del__ leave alone.
UnchangedByShutdown ==
    UNCHANGED <<latest_action, latest_observation, latest_extras,
                latest_step_type, reset_next_step, log_dict, timestep, logs,
                hist_total, hist_episode, calls, extras>>

\* A call of close() by the agent.
Close ==
    LET sd == close(Shutdown)
    IN  /\ ~deleted
        /\ coordinator_closes < MaxCloses
        /\ is_closed' = sd.is_closed
        /\ coordinator_closes' = sd.coordinator_closes
        /\ call' = CallRecord("close", "close", EmptyDict, NoAnswers)
        /\ trace' = <<"close">>
        /\ UNCHANGED deleted
        /\ UnchangedByShutdown

\* The teardown of the object: __del__ runs, and nothing can be called after.
Del ==
    LET sd == del(Shutdown)
    IN  /\ ~deleted
        /\ deleted' = TRUE
        /\ is_closed' = sd.is_closed
        /\ coordinator_closes' = sd.coordinator_closes
        /\ call' = CallRecord("__del__", "__del__", EmptyDict, NoAnswers)
        /\ trace' = IF is_closed THEN <<>> ELSE <<"close">>
        /\ UnchangedByShutdown

\* The episode interface and the telemetry export.
Next == Reset \/ Step \/ AndroidLogs

Spec == Init /\ [][Next]_vars

\* The episode interface and the extras accessor.
NextExtras == Reset \/ Step \/ TaskExtras

SpecExtras == Init /\ [][NextExtras]_vars

\* The episode interface and the shutdown of the object.
NextClose == Reset \/ Step \/ Close \/ Del

SpecClose == Init /\ [][NextClose]_vars

\* Type invariant of the model.
TypeOK ==
    /\ latest_action \in Actions \cup {EmptyDict}
    /\ latest_observation \in Observations \cup {EmptyDict}
    /\ latest_extras \in Extras \cup {EmptyDict}
    /\ latest_step_type \in {"FIRST", "MID", "LAST"}
    /\ reset_next_step \in BOOLEAN
    /\ DOMAIN log_dict = LogKeys
    /\ \A k \in LogKeys : log_dict[k] \in Nat
    /\ timestep.step_type \in {"NONE", "FIRST", "MID", "LAST"}

(* ======================= properties of the calls ====================== *)
\* The next state is the one a reset() or step() call leaves.
EnvCall == call'.op \in {"reset", "step"}
\* The next state is the one a step() call leaves, and on that call ...
StepCall == call'.op = "step"
\* ... should_restart() is true
Restarting == StepCall /\ call'.in.should_restart
\* ... should_restart() is false and check_timeout() is true
TimingOut == StepCall /\ ~call'.in.should_restart /\ call'.in.check_timeout
\* ... neither is true and the reset-pending flag is set
SilentReset == /\ StepCall /\ ~call'.in.should_restart /\ ~call'.in.check_timeout
               /\ reset_next_step
\* ... neither is true and the reset-pending flag is clear
NormalStep == /\ StepCall /\ ~call'.in.should_restart /\ ~call'.in.check_timeout
              /\ ~reset_next_step
\* The counters of a scope: its step counter and its action-type counters.
ScopeKeys(prefix) ==
    {StepsKey(prefix)} \cup {ActionTypeKey(prefix, n) : n \in ActionTypeNames}
\* C1 (as stated): a call that returns LAST is always followed, on the next
\* reset/step call, by a call that returns FIRST.
C1_LastThenFirst ==
    [][(timestep.step_type = "LAST" /\ EnvCall)
          => timestep'.step_type = "FIRST"]_vars

\* C1 (amended): after a call that returned LAST, the next reset/step call
\* returns FIRST, unless it is a step on which should_restart() or
\* check_timeout() is true, and then it returns LAST again; it never
\* returns MID.
C1_LastThenFirstUnlessFailure ==
    [][(timestep.step_type = "LAST" /\ EnvCall)
          => timestep'.step_type =
                IF Restarting \/ TimingOut THEN "LAST" ELSE "FIRST"]_vars

\* C1 witness: a step that followed a LAST TimeStep returned FIRST.
C1_Witness ==
    /\ call.op = "step" /\ call.before.step_type = "LAST"
    /\ timestep.step_type = "FIRST"

\* C2 (as stated): step with the reset-pending flag set leaves the same
\* TimeStep and the same object state as reset() would from the same state.
C2_PendingStepIsReset ==
    [][(StepCall /\ reset_next_step)
          => LET r == reset(Self, call'.in)
             IN  SelfNext = r.self /\ timestep' = r.ret]_vars

\* C2 (amended): step with the reset-pending flag set, on a call where
\* should_restart() and check_timeout() are both false, leaves the same
\* TimeStep and the same object state as reset() would from the same state
\* with the same collaborator answers, and no step or action-type counter
\* records the supplied action.
C2_PendingStepIsResetIfHealthy ==
    [][SilentReset
          => LET r == reset(Self, call'.in)
             IN  /\ SelfNext = r.self
                 /\ timestep' = r.ret
                 /\ \A k \in ScopeKeys("androidenv_total") :
                        log_dict'[k] = log_dict[k]
                 /\ \A k \in ScopeKeys("androidenv_episode") :
                        log_dict'[k] = 0
                 /\ hist_total' = hist_total]_vars

\* C2 witness: a step with an action was turned into a reset in the middle
\* of the object's life, and the action is not cached.
C2_Witness ==
    /\ call.path = "silent_reset" /\ call.before.reset_next_step
    /\ call.action = [action_type |-> 1]
    /\ latest_action = EmptyDict
    /\ Steps(hist_total) > 0

\* C3: a step on which should_restart() is true restarts the simulator,
\* adds exactly 1 to restart_count, sets the reset-pending flag and returns
\* LAST with reward 0 and discount 0 and the cached observation, which it
\* leaves as it was; the executor is not asked for an observation.
C3_RestartTerminates ==
    [][Restarting
          => /\ trace' = <<"should_restart", "restart_simulator">>
             /\ log_dict'[<<"restart_count">>] = log_dict[<<"restart_count">>] + 1
             /\ reset_next_step'
             /\ timestep' = TimeStep("LAST", latest_observation, 0, 0)
             /\ latest_observation' = latest_observation]_vars

\* C3 witness: a restart ended an episode that had an observation cached.
C3_Witness ==
    /\ call.op = "step" /\ call.in.should_restart
    /\ ~call.before.reset_next_step
    /\ timestep.observation \in Observations

\* C4: a step on which check_timeout() is true and should_restart() false
\* returns LAST with reward 0, discount 0 and the cached observation, sets
\* the reset-pending flag, adds exactly 1 to reset_count_step_timeout and
\* leaves restart_count alone.
C4_TimeoutTerminates ==
    [][TimingOut
          => /\ timestep' = TimeStep("LAST", latest_observation, 0, 0)
             /\ latest_observation' = latest_observation
             /\ reset_next_step'
             /\ log_dict'[<<"reset_count_step_timeout">>] =
                    log_dict[<<"reset_count_step_timeout">>] + 1
             /\ log_dict'[<<"restart_count">>] = log_dict[<<"restart_count">>]]_vars

\* C4 witness: a timeout ended an episode that had an observation cached.
C4_Witness ==
    /\ call.op = "step" /\ call.in.check_timeout /\ ~call.in.should_restart
    /\ ~call.before.reset_next_step
    /\ timestep.observation \in Observations
    /\ log_dict[<<"reset_count_step_timeout">>] = 1

\* C5: step tries restart, then timeout, then reset-pending, then normal
\* processing, and the first that applies decides the call: a restart does
\* not ask check_timeout and counts only in restart_count; a restart or a
\* timeout fetches no reward, checks no episode end and executes no action;
\* a pending reset only resets; only otherwise is the action processed.
C5_Precedence ==
    [][StepCall
          => /\ Restarting =>
                  /\ trace' = <<"should_restart", "restart_simulator">>
                  /\ log_dict' = [log_dict EXCEPT ![<<"restart_count">>] = @ + 1]
             /\ TimingOut =>
                  /\ trace' = <<"should_restart", "check_timeout">>
                  /\ log_dict' = [log_dict EXCEPT
                                     ![<<"reset_count_step_timeout">>] = @ + 1]
             /\ SilentReset =>
                  /\ trace' = <<"should_restart", "check_timeout", "reset",
                                "execute_action(None)", "get_current_extras">>
                  /\ timestep'.step_type = "FIRST"
             /\ NormalStep =>
                  /\ trace' = <<"should_restart", "check_timeout",
                                "increment_steps", "execute_action(action)",
                                "get_current_reward", "get_current_extras",
                                "check_if_episode_ended">>
                  /\ timestep'.step_type \in {"MID", "LAST"}]_vars

\* C5 witness: should_restart() and check_timeout() were both true on a step
\* in the middle of an episode, and only the restart was counted.
C5_Witness ==
    /\ call.op = "step" /\ call.in.should_restart /\ call.in.check_timeout
    /\ ~call.before.reset_next_step
    /\ log_dict[<<"restart_count">>] = 1
    /\ log_dict[<<"reset_count_step_timeout">>] = 0

\* C6: reset(), from whatever state it is called, returns FIRST with reward 0
\* and discount 0 and leaves the reset-pending flag clear and the latest step
\* type FIRST.
C6_ResetStartsEpisode ==
    [][call'.op = "reset"
          => /\ timestep' = TimeStep("FIRST", latest_observation', 0, 0)
             /\ ~reset_next_step'
             /\ latest_step_type' = "FIRST"]_vars

\* C6 witness: reset() was called on a terminated episode.
C6_Witness ==
    /\ call.op = "reset" /\ call.before.step_type = "LAST"
    /\ call.before.reset_next_step
    /\ timestep.step_type = "FIRST" /\ ~reset_next_step

\* C7: a normally processed step returns LAST if check_if_episode_ended()
\* answers true and MID otherwise, leaves the reset-pending flag equal to
\* that answer, returns the reward fetched in the call, and discount 0 if
\* terminal, 1 otherwise.
C7_NormalStepResult ==
    [][NormalStep
          => /\ timestep'.step_type = (IF call'.in.ended THEN "LAST" ELSE "MID")
             /\ latest_step_type' = timestep'.step_type
             /\ reset_next_step' = call'.in.ended
             /\ timestep'.reward = call'.in.reward
             /\ timestep'.discount = (IF call'.in.ended THEN 0 ELSE 1)]_vars

\* C7 witness: the third normal step of an episode, after a MID step, ended
\* the episode with a non-zero reward.
C7_Witness ==
    /\ call.path = "normal" /\ call.in.ended /\ call.in.reward = 1
    /\ Steps(hist_episode) = 3
    /\ call.before.step_type = "MID"
    /\ timestep.step_type = "LAST" /\ timestep.discount = 0

\* C8: after a reset, explicit or performed by step, every counter of the
\* episode scope is 0 and every other counter has the value it had before.
C8_ResetZeroesEpisodeScope ==
    [][(call'.op = "reset" \/ SilentReset)
          => /\ \A k \in ScopeKeys("androidenv_episode") : log_dict'[k] = 0
             /\ \A k \in LogKeys \ ScopeKeys("androidenv_episode") :
                    log_dict'[k] = log_dict[k]]_vars

\* C8 witness: a reset right after a counted step, with lifetime counters
\* that are not 0.
C8_Witness ==
    /\ call.path \in {"reset", "silent_reset"}
    /\ call.before.step_type \in {"MID", "LAST"}
    /\ log_dict[StepsKey("androidenv_total")] = 1
    /\ log_dict[<<"restart_count">>] = 1
    /\ log_dict[StepsKey("androidenv_episode")] = 0

\* The counters of a scope are those of a tally of steps.
CountsOf(prefix, tally) ==
    /\ log_dict[StepsKey(prefix)] = Steps(tally)
    /\ \A t \in ActionType :
          log_dict[ActionTypeKey(prefix, ActionTypeName(t))] = tally[t]
\* The mapping android_logs returned has, for a scope, the ratio of each
\* action type in a tally, and no ratio when the tally is empty.
RatiosOf(prefix, tally) ==
    \A t \in ActionType :
        LET key == RatioKey(prefix, ActionTypeName(t))
        IN  IF Steps(tally) > 0
            THEN key \in DOMAIN logs /\ logs[key] = Ratio(tally[t], Steps(tally))
            ELSE key \notin DOMAIN logs

\* C9: the episode step counter is the number N of steps normally processed
\* since the last reset and the episode counter of each action type is its
\* number of occurrences among them; the total counters are the same over
\* all normally processed steps; android_logs gives count / N as the ratio.
C9_CountersCountSteps ==
    /\ CountsOf("androidenv_episode", hist_episode)
    /\ CountsOf("androidenv_total", hist_total)
    /\ call.op = "android_logs"
          => /\ RatiosOf("androidenv_episode", hist_episode)
             /\ RatiosOf("androidenv_total", hist_total)

\* C9 witness: android_logs after a step in the second episode, of another
\* action type than the step of the first.
C9_Witness ==
    /\ call.op = "android_logs"
    /\ Steps(hist_episode) = 1 /\ Steps(hist_total) = 2
    /\ \E t \in ActionType : hist_total[t] = 1 /\ hist_episode[t] = 0

\* Sum of f[x] over the x of S.
RECURSIVE SumOver(_, _)
SumOver(f, S) ==
    IF S = {} THEN 0
    ELSE LET x == CHOOSE y \in S : TRUE IN f[x] + SumOver(f, S \ {x})

\* C10: in each scope the action-type counters add up to the step counter,
\* and the ratios android_logs gives for a scope with steps > 0 have the
\* step counter as their common denominator and numerators adding up to it.
C10_TypeCountsSumToSteps ==
    \A p \in log_prefixes :
        /\ SumOver([n \in ActionTypeNames |-> log_dict[ActionTypeKey(p, n)]],
                   ActionTypeNames) = log_dict[StepsKey(p)]
        /\ (call.op = "android_logs" /\ log_dict[StepsKey(p)] > 0)
              => /\ \A n \in ActionTypeNames :
                       /\ RatioKey(p, n) \in DOMAIN logs
                       /\ logs[RatioKey(p, n)][2] = log_dict[StepsKey(p)]
                 /\ SumOver([n \in ActionTypeNames |-> logs[RatioKey(p, n)][1]],
                            ActionTypeNames) = log_dict[StepsKey(p)]

\* C10 witness: android_logs in a state where both scopes have steps and
\* the total scope has two action types counted.
C10_Witness ==
    /\ call.op = "android_logs"
    /\ log_dict[StepsKey("androidenv_episode")] = 1
    /\ log_dict[StepsKey("androidenv_total")] = 2
    /\ Cardinality({n \in ActionTypeNames :
                       log_dict[ActionTypeKey("androidenv_total", n)] > 0}) >= 2

\* C11: however often close() is called, and with the implicit close of the
\* teardown, coordinator.close() is invoked exactly once.
C11_CoordinatorClosedOnce ==
    is_closed => coordinator_closes = 1

\* The most recent value of each key of the task-extras spec that is cached.
LatestExtras ==
    [key \in {k \in TaskExtrasSpec : k \in DOMAIN latest_extras} |->
        latest_extras[key][Len(latest_extras[key])]]

\* C12: task_extras(latest_only=True) changes nothing of the object (cached
\* extras, observation, action, step type, reset-pending flag, counters) and
\* returns the most recent cached value of each key, so a second call right
\* after it returns the same.
C12_TaskExtrasIsARead ==
    [][call'.op = "task_extras"
          => /\ SelfNext = Self
             /\ timestep' = timestep
             /\ call'.latest_only => extras' = LatestExtras
             /\ (call'.latest_only /\ call'.again) => extras' = extras]_vars

\* C12 witness: task_extras(latest_only=True) was called twice in a row with
\* two values cached for "score", and returned the second.
C12_Witness ==
    /\ call.op = "task_extras" /\ call.latest_only /\ call.again
    /\ latest_extras = [score |-> <<1, 2>>]
    /\ extras = [score |-> 2]

\* C13: between calls the reset-pending flag is set exactly when the latest
\* step type is LAST: it is set after construction and after a call that
\* returned LAST, and clear after a call that returned FIRST or MID.
C13_PendingIffLast ==
    /\ reset_next_step <=> latest_step_type = "LAST"
    /\ call.op = "init" => reset_next_step
    /\ timestep.step_type # "NONE"
          => /\ timestep.step_type = latest_step_type
             /\ reset_next_step <=> timestep.step_type = "LAST"

\* C13 witness: a normally processed step ended the episode and left the
\* flag set.
C13_Witness ==
    /\ call.path = "normal" /\ ~call.before.reset_next_step
    /\ timestep.step_type = "LAST" /\ reset_next_step

\* The collaborator method m is among those the call of the next state invoked.
Invoked(m) == \E i \in DOMAIN trace' : trace'[i] = m

\* C14: a step executes the supplied action, or returns MID or an episode-end
\* LAST, only when the TimeStep returned before it was FIRST or MID, that is
\* when a reset has completed since the last terminal TimeStep (or since
\* construction) and no terminal TimeStep was returned since.
C14_NormalOnlyAfterReset ==
    [][(StepCall /\ (\/ Invoked("execute_action(action)")
                     \/ Invoked("increment_steps")
                     \/ timestep'.step_type = "MID"
                     \/ (timestep'.step_type = "LAST" /\ call'.in.ended)))
          => /\ timestep.step_type \in {"FIRST", "MID"}
             /\ ~reset_next_step]_vars

\* C14 witness: after a restart ended an episode and a reset started the
\* next, a step was processed normally.
C14_Witness ==
    /\ call.path = "normal" /\ call.before.step_type = "FIRST"
    /\ log_dict[<<"restart_count">>] = 1
    /\ log_dict[StepsKey("androidenv_total")] = 1

\* C15: a step ended by a restart or a timeout changes no step counter and no
\* action-type counter, does not call increment_steps, and leaves the cached
\* observation and extras alone; restart_count changes only on a restart and
\* reset_count_step_timeout only on a timeout.
C15_FailureIsNotAStep ==
    [][/\ (Restarting \/ TimingOut)
            => /\ \A p \in log_prefixes : \A k \in ScopeKeys(p) :
                      log_dict'[k] = log_dict[k]
               /\ ~Invoked("increment_steps")
               /\ latest_observation' = latest_observation
               /\ latest_extras' = latest_extras
       /\ log_dict'[<<"restart_count">>] # log_dict[<<"restart_count">>]
            => Restarting
       /\ log_dict'[<<"reset_count_step_timeout">>]
              # log_dict[<<"reset_count_step_timeout">>]
            => TimingOut]_vars

\* C15 witness: a timeout ended an episode of two counted steps.
C15_Witness ==
    /\ call.path = "timeout"
    /\ log_dict[StepsKey("androidenv_episode")] = 2
    /\ log_dict[StepsKey("androidenv_total")] = 2
    /\ latest_observation \in Observations
    /\ latest_extras \in Extras

\* The call of the next state asks the executor for an observation: a reset,
\* explicit or performed by step, or a normally processed step.
FetchCall == call'.op = "reset" \/ SilentReset \/ NormalStep

\* C16: on a reset and on a normally processed step, when the executor
\* returns no observation the cached observation keeps its value, and when it
\* returns one the cache takes it; the TimeStep carries the cached value.
C16_StaleObservation ==
    [][FetchCall
          => /\ latest_observation' =
                    IF call'.in.observation = None THEN latest_observation
                    ELSE call'.in.observation
             /\ timestep'.observation = latest_observation']_vars

\* C16 witness: the executor returned nothing on a normal step and the
\* TimeStep carries the observation cached before.
C16_Witness ==
    /\ call.path = "normal" /\ call.in.observation = None
    /\ latest_observation \in Observations
    /\ timestep.observation = latest_observation

\* C17 (as stated): on a reset and on a normally processed step, when the
\* executor returns nothing the cached observation and the cached extras
\* both keep their values.
C17_NoPartialUpdate ==
    [][(FetchCall /\ call'.in.observation = None)
          => /\ latest_observation' = latest_observation
             /\ latest_extras' = latest_extras]_vars

\* C17 (amended): on a reset and on a normally processed step the cached
\* observation is replaced only when the executor returns one and keeps its
\* value otherwise, while the cached extras are replaced in every case by
\* what get_current_extras() returns.
C17_ExtrasAlwaysReplaced ==
    [][FetchCall
          => /\ latest_extras' = call'.in.extras
             /\ call'.in.observation = None
                   => latest_observation' = latest_observation
             /\ call'.in.observation # None
                   => latest_observation' = call'.in.observation]_vars

\* C17 witness: the executor returned nothing on a normal step; the stale
\* observation is kept and the extras are those fetched in the call.
C17_Witness ==
    /\ call.path = "normal" /\ call.in.observation = None
    /\ call.before.step_type = "MID"
    /\ latest_observation \in Observations
    /\ call.in.extras = [score |-> <<1, 2>>]
    /\ latest_extras = [score |-> <<1, 2>>]

\* C18: android_logs leaves the stored counters as they are, gives no ratio
\* for a scope whose step counter is 0, and gives every ratio, with a
\* denominator that is not 0, for a scope whose step counter is not 0.
C18_FlushSkipsEmptyScope ==
    [][call'.op = "android_logs"
          => /\ log_dict' = log_dict
             /\ DOMAIN log_dict' = LogKeys
             /\ \A p \in log_prefixes : \A n \in ActionTypeNames :
                    IF log_dict[StepsKey(p)] = 0
                    THEN RatioKey(p, n) \notin DOMAIN logs'
                    ELSE /\ RatioKey(p, n) \in DOMAIN logs'
                         /\ logs'[RatioKey(p, n)][2] > 0]_vars

\* C18 witness: android_logs right after a reset that followed counted
\* steps: ratios for the total scope, none for the episode scope.
C18_Witness ==
    /\ call.op = "android_logs"
    /\ log_dict[StepsKey("androidenv_episode")] = 0
    /\ log_dict[StepsKey("androidenv_total")] = 2
    /\ RatioKey("androidenv_total", "TOUCH") \in DOMAIN logs
    /\ RatioKey("androidenv_episode", "TOUCH") \notin DOMAIN logs

\* C19: the cached action is empty after a reset, explicit or performed by
\* step, and is the supplied action after a normally processed step and
\* after a step ended by a restart or a timeout.
C19_CachedActionByPath ==
    [][/\ (call'.op = "reset" \/ SilentReset) => latest_action' = EmptyDict
       /\ (NormalStep \/ Restarting \/ TimingOut)
             => latest_action' = call'.action]_vars

\* C19 witness: a restart on a step with the flag set: the action was not
\* executed and is cached.
C19_Witness ==
    /\ call.path = "restart" /\ call.before.reset_next_step
    /\ call.before.step_type = "LAST"
    /\ latest_action = [action_type |-> 2]

\* C20: a step with the reset-pending flag set, on which should_restart()
\* and check_timeout() are false, returns FIRST and clears the flag; and a
\* step that returns LAST right after a LAST is one on which a restart or a
\* timeout was reported.
C20_PendingStepRecovers ==
    [][StepCall
          => /\ SilentReset
                   => timestep'.step_type = "FIRST" /\ ~reset_next_step'
             /\ (timestep.step_type = "LAST" /\ timestep'.step_type = "LAST")
                   => (Restarting \/ TimingOut)]_vars

\* C20 witness: an episode ended by a timeout was followed by a new episode
\* on the next step.
C20_Witness ==
    /\ call.path = "silent_reset" /\ call.before.step_type = "LAST"
    /\ log_dict[<<"reset_count_step_timeout">>] = 1
    /\ timestep.step_type = "FIRST" /\ ~reset_next_step
====
